---------------------------- MODULE Spec2Model ----------------------------
(***************************************************************************)
(* A model of github-webhooks-serverless: the two dynamic providers        *)
(* (RandomProvider in random.ts, GithubWebhookProvider in the main file)   *)
(* and the API-gateway route handler built by the GitHubWebhook component. *)
(*                                                                         *)
(* Strings that the code inspects byte by byte (bodies, signatures, the    *)
(* secret) are sequences of code points; buffers are sequences of bytes.   *)
(***************************************************************************)
EXTENDS Integers, Sequences, FiniteSets, TLC

(***************************************************************************)
(* JavaScript values: undefined, strings (sequences of code points), and,  *)
(* for byteCount, numbers and NaN.                                         *)
(***************************************************************************)
Undefined == <<"undefined">>

Str(chars) == <<"string", chars>>

Num(n) == <<"number", n>>

NaN == <<"NaN">>

IsStr(v) == v[1] = "string"

(***************************************************************************)
(* 32-bit words as <<high 16 bits, low 16 bits>>.  The operations on words *)
(* and on buffers are functions, so that their arguments are values.       *)
(***************************************************************************)
Bytes == Seq(Nat)

Word == Seq(Nat)

\* Bit p (a power of two) of the bitwise AND of a and b.
AndBit(a, b, p) == ((a \div p) % 2) * ((b \div p) % 2) * p

And16[a \in Nat, b \in Nat] ==
    ((AndBit(a, b, 1) + AndBit(a, b, 2)) + (AndBit(a, b, 4) + AndBit(a, b, 8))
       + ((AndBit(a, b, 16) + AndBit(a, b, 32)) + (AndBit(a, b, 64) + AndBit(a, b, 128))))
    + ((AndBit(a, b, 256) + AndBit(a, b, 512)) + (AndBit(a, b, 1024) + AndBit(a, b, 2048))
       + ((AndBit(a, b, 4096) + AndBit(a, b, 8192))
          + (AndBit(a, b, 16384) + AndBit(a, b, 32768))))

Xor16[a \in Nat, b \in Nat] == a + b - 2 * And16[a, b]

WXor[u \in Word, v \in Word] == <<Xor16[u[1], v[1]], Xor16[u[2], v[2]]>>

WAnd[u \in Word, v \in Word] == <<And16[u[1], v[1]], And16[u[2], v[2]]>>

WAdd[u \in Word, v \in Word] ==
    <<(u[1] + v[1] + ((u[2] + v[2]) \div 65536)) % 65536, (u[2] + v[2]) % 65536>>

Rotl[u \in Word, n \in Nat] ==
    LET a == IF n >= 16 THEN <<u[2], u[1]>> ELSE u
        k == n % 16
    IN  IF k = 0 THEN a
        ELSE <<((a[1] * (2 ^ k)) % 65536) + (a[2] \div (2 ^ (16 - k))),
               ((a[2] * (2 ^ k)) % 65536) + (a[1] \div (2 ^ (16 - k)))>>

(***************************************************************************)
(* SHA-1 (FIPS 180-4) over a sequence of bytes.                            *)
(***************************************************************************)
Zeros(n) == [i \in 1..n |-> 0]

Sha1Pad[m \in Bytes] ==
    LET bits == Len(m) * 8
        z    == (119 - (Len(m) % 64)) % 64
    IN  m \o <<128>> \o Zeros(z) \o <<0, 0, 0, 0>>
          \o <<(bits \div 16777216) % 256, (bits \div 65536) % 256,
               (bits \div 256) % 256, bits % 256>>

\* The 16 words of the block of p that starts after off bytes.
BlockWords[p \in Bytes, off \in Nat] ==
    <<>> \o [i \in 1..16 |->
               LET j == off + 4 * (i - 1)
               IN  <<p[j + 1] * 256 + p[j + 2], p[j + 3] * 256 + p[j + 4]>>]

\* The message schedule w extended to n words.
Expand[w \in Seq(Word), n \in Nat] ==
    IF Len(w) >= n THEN w
    ELSE IF Len(w) + 1 = n THEN
        Append(w, Rotl[WXor[WXor[w[n - 3], w[n - 8]], WXor[w[n - 14], w[n - 16]]], 1])
    ELSE Expand[Expand[w, (Len(w) + n) \div 2], n]

Sha1F[t \in Nat, b \in Word, c \in Word, d \in Word] ==
    IF t <= 20 THEN WXor[d, WAnd[b, WXor[c, d]]]
    ELSE IF t <= 40 THEN WXor[b, WXor[c, d]]
    ELSE IF t <= 60 THEN WXor[WAnd[b, c], WAnd[d, WXor[b, c]]]
    ELSE WXor[b, WXor[c, d]]

Sha1K(t) ==
    IF t <= 20 THEN <<23170, 31129>>
    ELSE IF t <= 40 THEN <<28377, 60321>>
    ELSE IF t <= 60 THEN <<36635, 48348>>
    ELSE <<51810, 49622>>

\* Round t on the working state st = <<a, b, c, d, e>>.
Round[st \in Seq(Word), wt \in Word, t \in Nat] ==
    <<WAdd[WAdd[WAdd[Rotl[st[1], 5], Sha1F[t, st[2], st[3], st[4]]],
                WAdd[st[5], Sha1K(t)]], wt],
      st[1], Rotl[st[2], 30], st[3], st[4]>>

\* The working state after rounds from + 1 .. to, from the state st.
Rounds[st \in Seq(Word), w \in Seq(Word), from \in Nat, to \in Nat] ==
    IF from >= to THEN st
    ELSE IF from + 1 = to THEN Round[st, w[to], to]
    ELSE Rounds[Rounds[st, w, from, (from + to) \div 2], w, (from + to) \div 2, to]

\* The chaining value h with the working state r added to it.
AddState[h \in Seq(Word), r \in Seq(Word)] ==
    <<WAdd[h[1], r[1]], WAdd[h[2], r[2]], WAdd[h[3], r[3]],
      WAdd[h[4], r[4]], WAdd[h[5], r[5]]>>

\* The chaining value h after the block of p that starts after off bytes.
Compress[h \in Seq(Word), p \in Bytes, off \in Nat] ==
    AddState[h, Rounds[h, Expand[BlockWords[p, off], 80], 0, 80]]

Sha1Blocks[h \in Seq(Word), p \in Bytes, off \in Nat] ==
    IF off >= Len(p) THEN h ELSE Sha1Blocks[Compress[h, p, off], p, off + 64]

WordBytes(u) == <<u[1] \div 256, u[1] % 256, u[2] \div 256, u[2] % 256>>

\* The 20 bytes of the chaining value h.
StateBytes[h \in Seq(Word)] ==
    WordBytes(h[1]) \o WordBytes(h[2]) \o WordBytes(h[3])
        \o WordBytes(h[4]) \o WordBytes(h[5])

Sha1[m \in Bytes] ==
    StateBytes[Sha1Blocks[<<<<26437, 8961>>, <<61389, 43913>>, <<39098, 56574>>,
                            <<4146, 21622>>, <<50130, 57840>>>>, Sha1Pad[m], 0]]

(***************************************************************************)
(* HMAC (RFC 2104) with SHA-1: crypto.createHmac("sha1", key), update(m),  *)
(* digest().                                                               *)
(***************************************************************************)
XorBytes[s \in Bytes, c \in Nat] == <<>> \o [i \in 1..Len(s) |-> Xor16[s[i], c]]

\* The key of one block: hashed when longer, and padded with zeros.
HmacKey[key \in Bytes] == IF Len(key) > 64 THEN Sha1[key] ELSE key

PadKey[k \in Bytes] == k \o Zeros(64 - Len(k))

\* The HMAC of m under the padded key k.
HmacPadded[k \in Bytes, m \in Bytes] ==
    Sha1[XorBytes[k, 92] \o Sha1[XorBytes[k, 54] \o m]]

HmacSha1[key \in Bytes, m \in Bytes] == HmacPadded[PadKey[HmacKey[key]], m]

(***************************************************************************)
(* Buffer encodings: hex, base64, utf8.                                    *)
(***************************************************************************)
\* The concatenation of a sequence of sequences.
Flatten[ss \in Seq(Seq(Nat))] ==
    IF Len(ss) = 0 THEN <<>>
    ELSE IF Len(ss) = 1 THEN ss[1]
    ELSE Flatten[SubSeq(ss, 1, Len(ss) \div 2)]
           \o Flatten[SubSeq(ss, Len(ss) \div 2 + 1, Len(ss))]

HexDigit(n) == IF n < 10 THEN 48 + n ELSE 87 + n

\* buf.toString("hex")
Hex[b \in Bytes] ==
    Flatten[<<>> \o [i \in 1..Len(b) |-> <<HexDigit(b[i] \div 16), HexDigit(b[i] % 16)>>]]

B64Char(n) ==
    IF n < 26 THEN 65 + n
    ELSE IF n < 52 THEN 71 + n
    ELSE IF n < 62 THEN n - 4
    ELSE IF n = 62 THEN 43
    ELSE 47

\* The four characters for up to three bytes.
B64Group[b \in Bytes] ==
    IF Len(b) = 1 THEN
        <<B64Char(b[1] \div 4), B64Char((b[1] % 4) * 16), 61, 61>>
    ELSE IF Len(b) = 2 THEN
        <<B64Char(b[1] \div 4), B64Char((b[1] % 4) * 16 + (b[2] \div 16)),
          B64Char((b[2] % 16) * 4), 61>>
    ELSE <<B64Char(b[1] \div 4), B64Char((b[1] % 4) * 16 + (b[2] \div 16)),
           B64Char((b[2] % 16) * 4 + (b[3] \div 64)), B64Char(b[3] % 64)>>

Min(a, b) == IF a < b THEN a ELSE b

\* buf.toString("base64")
Base64Encode[b \in Bytes] ==
    Flatten[<<>> \o [g \in 1..((Len(b) + 2) \div 3) |->
                       B64Group[SubSeq(b, 3 * g - 2, Min(3 * g, Len(b)))]]]

\* The 6-bit value of a base64 character (the URL-safe '-' and '_' are
\* accepted too), or -1.
B64Val(c) ==
    IF c >= 65 /\ c <= 90 THEN c - 65
    ELSE IF c >= 97 /\ c <= 122 THEN c - 71
    ELSE IF c >= 48 /\ c <= 57 THEN c + 4
    ELSE IF c = 43 \/ c = 45 THEN 62
    ELSE IF c = 47 \/ c = 95 THEN 63
    ELSE -1

\* The sextets of a base64 string: decoding ends at the first '=', and
\* characters outside the alphabet are skipped.
B64Sextets[s \in Seq(Nat)] ==
    LET n == IF \E i \in 1..Len(s) : s[i] = 61
             THEN (CHOOSE i \in 1..Len(s) :
                      s[i] = 61 /\ \A j \in 1..(i - 1) : s[j] # 61) - 1
             ELSE Len(s)
    IN  Flatten[<<>> \o [i \in 1..n |->
                           IF B64Val(s[i]) < 0 THEN <<>> ELSE <<B64Val(s[i])>>]]

\* The bytes of up to four sextets.
B64Ungroup[v \in Seq(Nat)] ==
    IF Len(v) < 2 THEN <<>>
    ELSE IF Len(v) = 2 THEN <<v[1] * 4 + (v[2] \div 16)>>
    ELSE IF Len(v) = 3 THEN
        <<v[1] * 4 + (v[2] \div 16), (v[2] % 16) * 16 + (v[3] \div 4)>>
    ELSE <<v[1] * 4 + (v[2] \div 16), (v[2] % 16) * 16 + (v[3] \div 4),
           (v[3] % 4) * 64 + v[4]>>

B64Ungroups[v \in Seq(Nat)] ==
    Flatten[<<>> \o [g \in 1..((Len(v) + 3) \div 4) |->
                       B64Ungroup[SubSeq(v, 4 * g - 3, Min(4 * g, Len(v)))]]]

\* Buffer.from(s, "base64")
Base64Decode[s \in Seq(Nat)] == B64Ungroups[B64Sextets[s]]

\* Buffer.from(s, "utf8") for code points below U+0800.
Utf8Encode[s \in Seq(Nat)] ==
    Flatten[<<>> \o [i \in 1..Len(s) |->
                       IF s[i] < 128 THEN <<s[i]>>
                       ELSE <<192 + (s[i] \div 64), 128 + (s[i] % 64)>>]]

IsLead2(b, i) ==
    i >= 1 /\ i < Len(b) /\ b[i] >= 194 /\ b[i] < 224 /\ b[i + 1] >= 128 /\ b[i + 1] < 192

\* buf.toString(): one- and two-byte sequences; any other byte decodes to
\* U+FFFD.
Utf8Decode[b \in Bytes] ==
    Flatten[<<>> \o [i \in 1..Len(b) |->
                       IF b[i] < 128 THEN <<b[i]>>
                       ELSE IF IsLead2(b, i) THEN <<(b[i] - 192) * 64 + (b[i + 1] - 128)>>
                       ELSE IF IsLead2(b, i - 1) THEN <<>>
                       ELSE <<65533>>]]

(***************************************************************************)
(* JSON.parse (ECMA-404) over a string of code points.  A parse result is  *)
(* [ok, pos, val]: ok is FALSE where JSON.parse throws a SyntaxError, pos  *)
(* is the index of the first unread character.  Values are tagged tuples:  *)
(* <<"null">>, <<"true">>, <<"false">>, <<"number", mantissa, exponent>>   *)
(* (mantissa * 10^exponent, mantissa not divisible by 10),                 *)
(* <<"string", chars>>, <<"array", values>>, <<"object", members>> with    *)
(* members a sequence of <<key, value>> in insertion order.                *)
(***************************************************************************)
JFail(i) == [ok |-> FALSE, pos |-> i, val |-> <<>>]

JOk(i, v) == [ok |-> TRUE, pos |-> i, val |-> v]

IsWs(c) == c \in {32, 9, 10, 13}

IsDigit(c) == c >= 48 /\ c <= 57

IsHexDigit(c) == IsDigit(c) \/ (c >= 97 /\ c <= 102) \/ (c >= 65 /\ c <= 70)

HexVal(c) == IF IsDigit(c) THEN c - 48 ELSE IF c >= 97 THEN c - 87 ELSE c - 55

At(s, i) == IF i >= 1 /\ i <= Len(s) THEN s[i] ELSE -1

RECURSIVE SkipWs(_, _)
SkipWs(s, i) == IF IsWs(At(s, i)) THEN SkipWs(s, i + 1) ELSE i

Matches(s, i, lit) ==
    i + Len(lit) - 1 <= Len(s) /\ SubSeq(s, i, i + Len(lit) - 1) = lit

RECURSIVE DigitsEnd(_, _)
DigitsEnd(s, i) == IF IsDigit(At(s, i)) THEN DigitsEnd(s, i + 1) ELSE i

\* The number written by the digits s[i..j-1], after the digits worth acc.
RECURSIVE DigitsVal(_, _, _, _)
DigitsVal(s, i, j, acc) ==
    IF i >= j THEN acc ELSE DigitsVal(s, i + 1, j, acc * 10 + (s[i] - 48))

RECURSIVE Normalize(_, _)
Normalize(m, e) ==
    IF m = 0 THEN <<"number", 0, 0>>
    ELSE IF m % 10 = 0 THEN Normalize(m \div 10, e + 1)
    ELSE <<"number", m, e>>

ParseNumber(s, i) ==
    LET neg  == At(s, i) = 45
        i1   == IF neg THEN i + 1 ELSE i
        i2   == IF At(s, i1) = 48 THEN i1 + 1 ELSE DigitsEnd(s, i1)
        frac == At(s, i2) = 46
        i3   == IF frac THEN DigitsEnd(s, i2 + 1) ELSE i2
        exp  == At(s, i3) \in {101, 69}
        eneg == At(s, i3 + 1) = 45
        i4   == IF exp /\ At(s, i3 + 1) \in {43, 45} THEN i3 + 2 ELSE i3 + 1
        i5   == IF exp THEN DigitsEnd(s, i4) ELSE i3
        mant == DigitsVal(s, i2 + 1, i3, DigitsVal(s, i1, i2, 0))
        e    == IF exp THEN DigitsVal(s, i4, i5, 0) ELSE 0
        fl   == IF frac THEN i3 - (i2 + 1) ELSE 0
    IN  IF i2 = i1 \/ (frac /\ i3 = i2 + 1) \/ (exp /\ i5 = i4) THEN JFail(i)
        ELSE JOk(i5, Normalize(IF neg THEN 0 - mant ELSE mant,
                               (IF eneg THEN 0 - e ELSE e) - fl))

JEscape(c) ==
    IF c = 98 THEN 8
    ELSE IF c = 102 THEN 12
    ELSE IF c = 110 THEN 10
    ELSE IF c = 114 THEN 13
    ELSE IF c = 116 THEN 9
    ELSE c

\* The characters of a string literal from s[i] on (after the opening
\* quote), appended to acc.
RECURSIVE StringChars(_, _, _)
StringChars(s, i, acc) ==
    LET c == At(s, i)
    IN  IF c < 32 THEN JFail(i)
        ELSE IF c = 34 THEN JOk(i + 1, <<"string", acc>>)
        ELSE IF c # 92 THEN StringChars(s, i + 1, Append(acc, c))
        ELSE IF At(s, i + 1) \in {34, 92, 47, 98, 102, 110, 114, 116}
            THEN StringChars(s, i + 2, Append(acc, JEscape(s[i + 1])))
        ELSE IF At(s, i + 1) = 117 /\ IsHexDigit(At(s, i + 2))
                /\ IsHexDigit(At(s, i + 3)) /\ IsHexDigit(At(s, i + 4))
                /\ IsHexDigit(At(s, i + 5))
            THEN StringChars(s, i + 6,
                     Append(acc, HexVal(s[i + 2]) * 4096 + HexVal(s[i + 3]) * 256
                                   + HexVal(s[i + 4]) * 16 + HexVal(s[i + 5])))
        ELSE JFail(i)

ParseString(s, i) ==
    IF At(s, i) = 34 THEN StringChars(s, i + 1, <<>>) ELSE JFail(i)

\* A later member with the same key overwrites the value of the earlier one.
RECURSIVE PutMember(_, _, _)
PutMember(ms, k, v) ==
    IF ms = <<>> THEN <<<<k, v>>>>
    ELSE IF Head(ms)[1] = k THEN <<<<k, v>>>> \o Tail(ms)
    ELSE <<Head(ms)>> \o PutMember(Tail(ms), k, v)

RECURSIVE ParseValue(_, _)
RECURSIVE ParseElements(_, _, _)
RECURSIVE ParseMembers(_, _, _)

\* After '[' or ',': a value, then ',' or ']'.
ParseElements(s, i, acc) ==
    LET r == ParseValue(s, SkipWs(s, i))
        j == SkipWs(s, r.pos)
    IN  IF ~r.ok THEN r
        ELSE IF At(s, j) = 44 THEN ParseElements(s, j + 1, Append(acc, r.val))
        ELSE IF At(s, j) = 93 THEN JOk(j + 1, <<"array", Append(acc, r.val)>>)
        ELSE JFail(j)

\* After '{' or ',': a string, ':', a value, then ',' or '}'.
ParseMembers(s, i, acc) ==
    LET k  == ParseString(s, SkipWs(s, i))
        c  == SkipWs(s, k.pos)
        r  == ParseValue(s, SkipWs(s, c + 1))
        j  == SkipWs(s, r.pos)
    IN  IF ~k.ok THEN k
        ELSE IF At(s, c) # 58 THEN JFail(c)
        ELSE IF ~r.ok THEN r
        ELSE IF At(s, j) = 44
            THEN ParseMembers(s, j + 1, PutMember(acc, k.val[2], r.val))
        ELSE IF At(s, j) = 125
            THEN JOk(j + 1, <<"object", PutMember(acc, k.val[2], r.val)>>)
        ELSE JFail(j)

ParseValue(s, i) ==
    LET c == At(s, i)
    IN  IF c = 123 THEN
            (IF At(s, SkipWs(s, i + 1)) = 125
               THEN JOk(SkipWs(s, i + 1) + 1, <<"object", <<>>>>)
               ELSE ParseMembers(s, i + 1, <<>>))
        ELSE IF c = 91 THEN
            (IF At(s, SkipWs(s, i + 1)) = 93
               THEN JOk(SkipWs(s, i + 1) + 1, <<"array", <<>>>>)
               ELSE ParseElements(s, i + 1, <<>>))
        ELSE IF c = 34 THEN ParseString(s, i)
        ELSE IF c = 45 \/ IsDigit(c) THEN ParseNumber(s, i)
        ELSE IF Matches(s, i, <<116, 114, 117, 101>>) THEN JOk(i + 4, <<"true">>)
        ELSE IF Matches(s, i, <<102, 97, 108, 115, 101>>) THEN JOk(i + 5, <<"false">>)
        ELSE IF Matches(s, i, <<110, 117, 108, 108>>) THEN JOk(i + 4, <<"null">>)
        ELSE JFail(i)

JSONParse[s \in Seq(Nat)] ==
    LET r == ParseValue(s, SkipWs(s, 1))
    IN  IF r.ok /\ SkipWs(s, r.pos) = Len(s) + 1 THEN r ELSE JFail(r.pos)

\* JavaScript truthiness: undefined, NaN, 0 and the empty string are falsy.
Truthy(v) ==
    \/ IsStr(v) /\ v[2] # <<>>
    \/ v[1] = "number" /\ v[2] # 0

(***************************************************************************)
(* The secret: RandomProvider.create draws from crypto.randomBytes.  The   *)
(* random source is a choice of seed; seed and length fix the bytes.       *)
(***************************************************************************)
Seeds == {3, 11}

RandomBytes(n, seed) ==
    <<>> \o [i \in 1..n |-> (seed * 89 + i * 151 + i * i * seed) % 256]

\* crypto.randomBytes(32)
RandomSize == 32

\* The byteCount GitHubWebhook's constructor asks for (part_000, line 206).
SecretByteCount == 32

\* create (random.ts, lines 43-53): the inputs are not read.
RandomProvider_create(inputs, seed) ==
    LET value == Str(Base64Encode[RandomBytes(RandomSize, seed)])
    IN  [id |-> value, outs |-> [value |-> value]]

\* The values secret.value can have.
Secrets ==
    {RandomProvider_create([byteCount |-> Num(SecretByteCount), value |-> Undefined],
                           seed).outs.value[2] : seed \in Seeds}

(***************************************************************************)
(* Deliveries.  A sender has a payload text, which the transport hands     *)
(* over either as it is or base64-encoded (isBase64Encoded).               *)
(***************************************************************************)
\* {"a":1}   "é"   {"a":
Payloads ==
    {<<123, 34, 97, 34, 58, 49, 125>>, <<34, 233, 34>>, <<123, 34, 97, 34, 58>>}

Sha1Prefix == <<115, 104, 97, 49, 61>>

\* Every HMAC the model needs, computed once.
HmacMemo == {<<k, Utf8Encode[p], HmacSha1[Utf8Encode[k], Utf8Encode[p]]>> :
                k \in Secrets, p \in Payloads \cup {<<>>}}

\* The entry of the memo t for key and m, the HMAC computed if there is none.
HmacIn[t \in SUBSET (Seq(Nat) \X Bytes \X Bytes), key \in Seq(Nat), m \in Bytes] ==
    IF \E e \in t : e[1] = key /\ e[2] = m
    THEN (CHOOSE e \in t : e[1] = key /\ e[2] = m)[3]
    ELSE HmacSha1[Utf8Encode[key], m]

\* hmac = crypto.createHmac("sha1", key); hmac.update(m); hmac.digest()
Hmac(key, m) == HmacIn[HmacMemo, key, m]

\* The X-Hub-Signature a sender holding key computes over the bytes m.
Sign(key, m) == Sha1Prefix \o Hex[Hmac(key, m)]

Signed == {Sign(k, Utf8Encode[p]) : k \in Secrets, p \in Payloads}

DropLast(sig) == SubSeq(sig, 1, Len(sig) - 1)

\* The last hex digit replaced by another one.
FlipLast(sig) ==
    DropLast(sig) \o <<IF sig[Len(sig)] = 48 THEN 49 ELSE 48>>

\* The X-Hub-Signature header: absent, empty, a signature, or a signature
\* cut short or altered.
SigValues ==
    {Undefined, Str(<<>>)} \cup {Str(x) : x \in Signed}
        \cup {Str(DropLast(Sign(k, Utf8Encode[<<34, 233, 34>>]))) : k \in Secrets}
        \cup {Str(FlipLast(Sign(k, Utf8Encode[<<34, 233, 34>>]))) : k \in Secrets}

\* What arrives for a sent payload: the request's body and flag.
Transports(p) ==
    {[body |-> Str(p), isBase64Encoded |-> FALSE],
     [body |-> Str(Base64Encode[Utf8Encode[p]]), isBase64Encoded |-> TRUE]}

\* push
EventTypes == {<<112, 117, 115, 104>>}

\* d1
DeliveryIds == {<<100, 49>>}

\* A delivery: the request the gateway receives (the three headers, body,
\* isBase64Encoded) and what the sender sent: the payload text and its
\* bytes (raw), both <<>> when no body was sent.
Deliveries ==
    LET bodies == {[body |-> b, isBase64Encoded |-> FALSE, raw |-> <<>>, text |-> <<>>] :
                      b \in {Undefined, Str(<<>>)}}
                  \cup UNION {{[body |-> t.body, isBase64Encoded |-> t.isBase64Encoded,
                                raw |-> Utf8Encode[p], text |-> p] : t \in Transports(p)} :
                              p \in Payloads}
    IN  {[type |-> ty, id |-> id, sig |-> sg, body |-> b.body,
          isBase64Encoded |-> b.isBase64Encoded, raw |-> b.raw, text |-> b.text] :
            ty \in {Undefined, Str(<<>>)} \cup {Str(t) : t \in EventTypes},
            id \in {Undefined} \cup {Str(d) : d \in DeliveryIds},
            sg \in SigValues, b \in bodies}

\* The serverless.apigateway.Request of a delivery.
Request(d) ==
    [headers |-> [XGitHubEvent |-> d.type, XGitHubDelivery |-> d.id,
                  XHubSignature |-> d.sig],
     body |-> d.body, isBase64Encoded |-> d.isBase64Encoded]

NoDelivery ==
    [type |-> Undefined, id |-> Undefined, sig |-> Undefined, body |-> Undefined,
     isBase64Encoded |-> FALSE, raw |-> <<>>, text |-> <<>>]

\* The delivery has an event type, a delivery id, a signature and a body.
FourInputs(d) ==
    /\ d.type \notin {Undefined, Str(<<>>)}
    /\ d.id \notin {Undefined, Str(<<>>)}
    /\ d.sig \notin {Undefined, Str(<<>>)}
    /\ d.body \notin {Undefined, Str(<<>>)}

(***************************************************************************)
(* The state.                                                              *)
(***************************************************************************)
VARIABLES
    secretValue,     \* secret.value, the RandomResource's output
    req,             \* the delivery being handled
    pc,              \* where the route handler is with req
    trace,           \* the values pc has had for req
    bodyBuf,         \* body (line 227)
    digest,          \* digest (line 233)
    hmacs,           \* the HMACs computed for req
    event,           \* event (line 243)
    handlerArgs,     \* what args.handler was called with for req
    invocations,     \* the calls of args.handler for req
    response,        \* what the route handler returned or raised for req
    logCount,        \* the lines written by console.log
    handlerCalls,    \* the calls of args.handler, over all requests
    deliveries,      \* the requests received
    complete         \* the requests received that had the four inputs

gatewayVars ==
    <<secretValue, req, pc, trace, bodyBuf, digest, hmacs, event, handlerArgs,
      invocations, response, logCount, handlerCalls, deliveries, complete>>

VARIABLES
    hookOlds,        \* the registration's recorded properties (olds)
    hookNews,        \* the registration's proposed properties (news, inputs)
    hookId,          \* the registration's recorded id
    hookPc,          \* where the GithubWebhookProvider operation in progress is
    failedChecks,    \* what check returned
    replaces,        \* what diff returned
    calls,           \* the remote calls of the operation in progress
    hookRes,         \* res: the remote service's response to the call
    remoteHook,      \* the hook the remote service holds for the registration
    hookResult       \* what the operation in progress returned or raised

hookVars ==
    <<hookOlds, hookNews, hookId, hookPc, failedChecks, replaces, calls, hookRes,
      remoteHook, hookResult>>

VARIABLES
    randOlds,        \* the secret's recorded properties (olds)
    randNews,        \* the secret's proposed properties (news, inputs)
    randId,          \* the secret's recorded id
    randPc,          \* where the RandomProvider operation in progress is
    randFailed,      \* what check returned
    randReplaces,    \* what diff returned
    randCalls,       \* the remote calls of the RandomProvider's operations
    randResult       \* what the operation in progress returned

randomVars ==
    <<randOlds, randNews, randId, randPc, randFailed, randReplaces, randCalls,
      randResult>>

VARIABLES
    composite,       \* what GitHubWebhook's constructor has built
    slots            \* the requests the gateway handles at the same time

compositeVars == <<composite>>

slotVars == <<slots>>

vars == <<gatewayVars, hookVars, randomVars, compositeVars, slotVars>>

(***************************************************************************)
(* The gateway's route handler (part_000, lines 215-256).                  *)
(***************************************************************************)
MaxDeliveries == 2

NoResponse == [kind |-> "none", statusCode |-> 0, body |-> "", error |-> ""]

\* return {statusCode: code, body: text}
Returned(code, text) ==
    [kind |-> "returned", statusCode |-> code, body |-> text, error |-> ""]

\* The handler's promise rejects with the error err.
Raised(err) == [kind |-> "raised", statusCode |-> 0, body |-> "", error |-> err]

NoArgs == [called |-> FALSE]

\* Between two requests.
Resting == {"Idle", "Responded", "Rejected", "Raised"}

\* A request arrives at POST /.
Receive(d) ==
    /\ pc \in Resting
    /\ deliveries < MaxDeliveries
    /\ req' = d
    /\ pc' = "Received"
    /\ trace' = <<"Received">>
    /\ bodyBuf' = <<>>
    /\ digest' = <<>>
    /\ hmacs' = 0
    /\ event' = Undefined
    /\ handlerArgs' = NoArgs
    /\ invocations' = 0
    /\ response' = NoResponse
    /\ deliveries' = deliveries + 1
    /\ complete' = complete + (IF FourInputs(d) THEN 1 ELSE 0)
    /\ UNCHANGED <<secretValue, logCount, handlerCalls, hookVars, randomVars, compositeVars,
                   slotVars>>

\* Line 220 without req.body.
AllPresentHeaders(r) == Truthy(r.type) /\ Truthy(r.id) /\ Truthy(r.sig)

\* Line 220: eventType && eventId && eventSig && req.body
AllPresent(r) == Truthy(r.type) /\ Truthy(r.id) /\ Truthy(r.sig) /\ Truthy(r.body)

\* Lines 216-225.
CheckHeaders ==
    /\ pc = "Received"
    /\ IF AllPresent(req)
       THEN /\ pc' = "HeadersChecked"
            /\ response' = response
       ELSE /\ pc' = "Rejected"
            /\ response' = Returned(400, "missing parameter")
    /\ trace' = Append(trace, pc')
    /\ UNCHANGED <<secretValue, req, bodyBuf, digest, hmacs, event, handlerArgs,
                   invocations, logCount, handlerCalls, deliveries, complete,
                   hookVars, randomVars, compositeVars,
                   slotVars>>

\* Buffer.from(v, encoding) for a string v.
BufferFrom(v, encoding) ==
    IF encoding = "base64" THEN Base64Decode[v[2]] ELSE Utf8Encode[v[2]]

\* timingSafeEqual comparing the lengths only.
timingSafeEqualLengths(a, b) ==
    IF Len(a) # Len(b) THEN [threw |-> TRUE, equal |-> FALSE]
    ELSE [threw |-> FALSE, equal |-> TRUE]

\* crypto.timingSafeEqual(a, b): throws unless a and b are equally long.
timingSafeEqual(a, b) ==
    IF Len(a) # Len(b) THEN [threw |-> TRUE, equal |-> FALSE]
    ELSE [threw |-> FALSE, equal |-> a = b]

\* Lines 227-241.
VerifySignature ==
    /\ pc = "HeadersChecked"
    /\ IF ~IsStr(req.body) \/ ~IsStr(req.sig)
       THEN /\ pc' = "Raised"
            /\ response' = Raised("TypeError")
            /\ UNCHANGED <<bodyBuf, digest, hmacs, logCount>>
       ELSE /\ bodyBuf' = BufferFrom(req.body,
                                      IF req.isBase64Encoded THEN "base64" ELSE "utf8")
            /\ digest' = Sha1Prefix \o Hex[Hmac(secretValue, bodyBuf')]
            /\ hmacs' = hmacs + 1
            /\ \E cmp \in {timingSafeEqual(BufferFrom(req.sig, "utf8"),
                                            BufferFrom(Str(digest'), "utf8"))} :
                   IF cmp.threw
                   THEN /\ pc' = "Raised"
                        /\ response' = Raised("RangeError")
                        /\ logCount' = logCount
                   ELSE IF ~cmp.equal
                   THEN /\ pc' = "Rejected"
                        /\ response' = Returned(400, "bad signature")
                        /\ logCount' = logCount + 1
                   ELSE /\ pc' = "SignatureVerified"
                        /\ response' = response
                        /\ logCount' = logCount
    /\ trace' = Append(trace, pc')
    /\ UNCHANGED <<secretValue, req, event, handlerArgs, invocations, handlerCalls,
                   deliveries, complete, hookVars, randomVars, compositeVars,
                   slotVars>>

\* Line 243 with the SyntaxError caught and answered 400.
ParsePayloadCaught ==
    /\ pc = "SignatureVerified"
    /\ LET parsed == JSONParse[Utf8Decode[bodyBuf]]
       IN  IF parsed.ok
           THEN /\ pc' = "PayloadParsed"
                /\ event' = parsed.val
                /\ response' = response
           ELSE /\ pc' = "Rejected"
                /\ event' = event
                /\ response' = Returned(400, "bad payload")
    /\ trace' = Append(trace, pc')
    /\ UNCHANGED <<secretValue, req, bodyBuf, digest, hmacs, handlerArgs, invocations,
                   logCount, handlerCalls, deliveries, complete, hookVars, randomVars,
                   compositeVars, slotVars>>

\* Line 243: JSON.parse of the body's text; its SyntaxError is not caught.
ParsePayload ==
    /\ pc = "SignatureVerified"
    /\ LET parsed == JSONParse[Utf8Decode[bodyBuf]]
       IN  IF parsed.ok
           THEN /\ pc' = "PayloadParsed"
                /\ event' = parsed.val
                /\ response' = response
           ELSE /\ pc' = "Raised"
                /\ event' = event
                /\ response' = Raised("SyntaxError")
    /\ trace' = Append(trace, pc')
    /\ UNCHANGED <<secretValue, req, bodyBuf, digest, hmacs, handlerArgs, invocations,
                   logCount, handlerCalls, deliveries, complete, hookVars, randomVars,
                   compositeVars, slotVars>>

\* Lines 245-250: args.handler is called.
Dispatch ==
    /\ pc = "PayloadParsed"
    /\ pc' = "Dispatched"
    /\ handlerArgs' = [called |-> TRUE, request |-> Request(req), type |-> req.type,
                       id |-> req.id, data |-> event]
    /\ invocations' = invocations + 1
    /\ handlerCalls' = handlerCalls + 1
    /\ trace' = Append(trace, pc')
    /\ UNCHANGED <<secretValue, req, bodyBuf, digest, hmacs, event, response, logCount,
                   deliveries, complete, hookVars, randomVars, compositeVars,
                   slotVars>>

\* Lines 245-255: the handler's promise resolves.
HandlerReturns ==
    /\ pc = "Dispatched"
    /\ pc' = "Responded"
    /\ response' = Returned(200, "")
    /\ trace' = Append(trace, pc')
    /\ UNCHANGED <<secretValue, req, bodyBuf, digest, hmacs, event, handlerArgs,
                   invocations, logCount, handlerCalls, deliveries, complete,
                   hookVars, randomVars, compositeVars,
                   slotVars>>

\* The handler's rejection caught, and line 252 reached.
HandlerRaisesCaught ==
    /\ pc = "Dispatched"
    /\ pc' = "Raised"
    /\ response' = Returned(200, "")
    /\ trace' = Append(trace, pc')
    /\ UNCHANGED <<secretValue, req, bodyBuf, digest, hmacs, event, handlerArgs,
                   invocations, logCount, handlerCalls, deliveries, complete,
                   hookVars, randomVars, compositeVars,
                   slotVars>>

\* Line 245: the handler's promise rejects.
HandlerRaises ==
    /\ pc = "Dispatched"
    /\ pc' = "Raised"
    /\ response' = Raised("handler error")
    /\ trace' = Append(trace, pc')
    /\ UNCHANGED <<secretValue, req, bodyBuf, digest, hmacs, event, handlerArgs,
                   invocations, logCount, handlerCalls, deliveries, complete,
                   hookVars, randomVars, compositeVars,
                   slotVars>>

(***************************************************************************)
(* The route handler invoked for several requests at once (lines 215-256). *)
(* An invocation runs alone from one await to the next: up to the import   *)
(* of line 229, from there to the call of the handler (line 245), and from *)
(* the handler's settling to the end.  Each invocation has its own locals; *)
(* secret.value is the one thing they share.                               *)
(***************************************************************************)
\* The number of requests handled at the same time.
MaxConcurrent == 2

\* The invocation for the delivery d, entered.
NewSlot(d) ==
    [req |-> d, pc |-> "Received", body |-> <<>>, digest |-> <<>>, event |-> Undefined,
     handlerArgs |-> NoArgs, response |-> NoResponse]

\* Lines 216-229: the locals at the await of the import, or at the return
\* of line 221.
HandlerStart(sl) ==
    IF AllPresent(sl.req)
    THEN [sl EXCEPT !.pc = "AwaitingCrypto",
                    !.body = BufferFrom(sl.req.body,
                                 IF sl.req.isBase64Encoded THEN "base64" ELSE "utf8")]
    ELSE [sl EXCEPT !.pc = "Done", !.response = Returned(400, "missing parameter")]

\* Lines 235-250 for the digest computed: the locals at the await of the
\* handler, or at the exit before it.
HandlerCompare(sl, dg) ==
    IF timingSafeEqual(BufferFrom(sl.req.sig, "utf8"), BufferFrom(Str(dg), "utf8")).threw
    THEN [sl EXCEPT !.pc = "Done", !.digest = dg, !.response = Raised("RangeError")]
    ELSE IF ~timingSafeEqual(BufferFrom(sl.req.sig, "utf8"),
                             BufferFrom(Str(dg), "utf8")).equal
    THEN [sl EXCEPT !.pc = "Done", !.digest = dg,
                    !.response = Returned(400, "bad signature")]
    ELSE IF ~JSONParse[Utf8Decode[sl.body]].ok
    THEN [sl EXCEPT !.pc = "Done", !.digest = dg, !.response = Raised("SyntaxError")]
    ELSE [sl EXCEPT !.pc = "AwaitingHandler", !.digest = dg,
                    !.event = JSONParse[Utf8Decode[sl.body]].val,
                    !.handlerArgs =
                        [called |-> TRUE, request |-> Request(sl.req),
                         type |-> sl.req.type, id |-> sl.req.id,
                         data |-> JSONParse[Utf8Decode[sl.body]].val]]

\* Lines 230-250, with the body the digest is computed over.
HandlerVerifyOver(sl, value, body) ==
    HandlerCompare(sl, Sha1Prefix \o Hex[Hmac(value, body)])

\* Lines 230-250: secret.value.get() is value.
HandlerVerify(sl, value) == HandlerVerifyOver(sl, value, sl.body)

\* Lines 245-255: the handler's promise resolves (ok) or rejects.
HandlerSettle(sl, ok) ==
    IF ok
    THEN [sl EXCEPT !.pc = "Done", !.response = Returned(200, "")]
    ELSE [sl EXCEPT !.pc = "Done", !.response = Raised("handler error")]

\* A request arrives while others are handled.
SlotReceive(d) ==
    /\ Len(slots) < MaxConcurrent
    /\ slots' = Append(slots, NewSlot(d))
    /\ UNCHANGED <<gatewayVars, hookVars, randomVars, compositeVars>>

SlotStart(i) ==
    /\ slots[i].pc = "Received"
    /\ slots' = [slots EXCEPT ![i] = HandlerStart(@)]
    /\ UNCHANGED <<gatewayVars, hookVars, randomVars, compositeVars>>

\* Lines 230-250 with body a variable the invocations share: the digest is
\* computed over the body of the request that arrived last.
SlotVerifyShared(i) ==
    /\ slots[i].pc = "AwaitingCrypto"
    /\ slots' = [slots EXCEPT
                    ![i] = HandlerVerifyOver(@, secretValue, slots[Len(slots)].body)]
    /\ UNCHANGED <<gatewayVars, hookVars, randomVars, compositeVars>>

SlotVerify(i) ==
    /\ slots[i].pc = "AwaitingCrypto"
    /\ slots' = [slots EXCEPT ![i] = HandlerVerify(@, secretValue)]
    /\ UNCHANGED <<gatewayVars, hookVars, randomVars, compositeVars>>

SlotSettle(i, ok) ==
    /\ slots[i].pc = "AwaitingHandler"
    /\ slots' = [slots EXCEPT ![i] = HandlerSettle(@, ok)]
    /\ UNCHANGED <<gatewayVars, hookVars, randomVars, compositeVars>>

\* The sender of the deliveries that arrive at the same time.
Sender == CHOOSE k \in Secrets : TRUE

\* The deliveries that arrive at the same time: each payload, plain or in
\* base64, under the sender's signature of any of the payloads; one
\* without signature, one with a signature cut short, one without body.
ConcurrentDeliveries ==
    {d \in Deliveries :
        /\ d.type \in {Str(t) : t \in EventTypes}
        /\ d.id \in {Str(x) : x \in DeliveryIds}
        /\ d.isBase64Encoded <=> d.text = <<34, 233, 34>>
        /\ \/ /\ d.sig \in {Str(Sign(Sender, Utf8Encode[p])) : p \in Payloads}
              /\ d.body # Str(<<>>)
              /\ d.body = Undefined => d.sig = Str(Sign(Sender, Utf8Encode[<<34, 233, 34>>]))
           \/ /\ d.sig \in {Undefined,
                             Str(DropLast(Sign(Sender, Utf8Encode[<<34, 233, 34>>])))}
              /\ d.text = <<34, 233, 34>>}

(***************************************************************************)
(* GithubWebhookProvider (part_000, lines 23-160).  The orchestration      *)
(* framework proposes properties and calls the provider's operations.      *)
(***************************************************************************)
\* a !== b
StrictNotEqual(a, b) == a # b \/ a = NaN

\* https://hook.example
HookUrl == <<104, 116, 116, 112, 115, 58, 47, 47, 104, 111, 111, 107>>

EventLists ==
    {<<"array", <<Str(<<112, 117, 115, 104>>)>>>>,
     <<"array", <<Str(<<112, 117, 115, 104>>), Str(<<102, 111, 114, 107>>)>>>>}

\* secret.value as the composite passes it to a registration (line 269).
HookSecret ==
    RandomProvider_create([byteCount |-> Num(SecretByteCount), value |-> Undefined],
                          CHOOSE seed \in Seeds : TRUE).outs.value

\* The property sets the framework can propose for a registration.
HookProps ==
    [url : {Undefined, Str(HookUrl)},
     org : {Undefined, Str(<<>>), Str(<<111, 114, 103>>)},
     owner : {Undefined, Str(<<109, 101>>)},
     repo : {Undefined, Str(<<105, 116>>)},
     events : EventLists,
     secret : {HookSecret}]

NoProps ==
    [url |-> Undefined, org |-> Undefined, owner |-> Undefined, repo |-> Undefined,
     events |-> Undefined, secret |-> Undefined]

NoId == Undefined

NoResult == [kind |-> "none", id |-> Undefined, error |-> ""]

NoRes == [status |-> 0, data |-> [id |-> 0]]

\* The ids the remote service assigns to hooks.
HookIds == {7, 12}

\* The statuses of the remote service's responses.
Statuses == {200, 201, 404}

\* `${n}` for a number n >= 0.
NumberToString[n \in Nat] ==
    IF n < 10 THEN <<48 + n>> ELSE NumberToString[n \div 10] \o <<48 + (n % 10)>>

HookPropose(news) ==
    /\ \/ hookPc \in {"Idle", "Done", "Failed"}
       \/ hookPc = "Diffed" /\ replaces = <<>>
    /\ hookNews' = news
    /\ hookPc' = "Proposed"
    /\ failedChecks' = <<>>
    /\ replaces' = <<>>
    /\ calls' = <<>>
    /\ hookRes' = NoRes
    /\ hookResult' = NoResult
    /\ UNCHANGED <<hookOlds, hookId, remoteHook, gatewayVars, randomVars,
                   compositeVars, slotVars>>

\* The value of failedChecks after the first failure found is pushed.
GithubWebhookProvider_checkFirst(olds, news) ==
    IF news.url = Undefined
    THEN <<[property |-> "url", reason |-> "required property 'url' missing"]>>
    ELSE IF news.org # Undefined /\ (news.owner # Undefined \/ news.repo # Undefined)
    THEN <<[property |-> "org",
            reason |-> "when 'org' is set, 'owner' and 'repo' must not be"]>>
    ELSE IF news.owner # Undefined /\ news.repo = Undefined
    THEN <<[property |-> "repo", reason |-> "when 'owner' is set, 'repo' must be as well"]>>
    ELSE IF news.repo # Undefined /\ news.owner = Undefined
    THEN <<[property |-> "owner", reason |-> "when 'repo' is set, 'owner' must be as well"]>>
    ELSE <<>>

\* check (lines 24-44): the value of failedChecks.
GithubWebhookProvider_check(olds, news) ==
    (IF news.url = Undefined
     THEN <<[property |-> "url", reason |-> "required property 'url' missing"]>>
     ELSE <<>>)
    \o (IF news.org # Undefined /\ (news.owner # Undefined \/ news.repo # Undefined)
        THEN <<[property |-> "org",
                reason |-> "when 'org' is set, 'owner' and 'repo' must not be"]>>
        ELSE <<>>)
    \o (IF news.owner # Undefined /\ news.repo = Undefined
        THEN <<[property |-> "repo",
                reason |-> "when 'owner' is set, 'repo' must be as well"]>>
        ELSE <<>>)
    \o (IF news.repo # Undefined /\ news.owner = Undefined
        THEN <<[property |-> "owner",
                reason |-> "when 'repo' is set, 'owner' must be as well"]>>
        ELSE <<>>)

HookCheck ==
    /\ hookPc = "Proposed"
    /\ failedChecks' = GithubWebhookProvider_check(hookOlds, hookNews)
    /\ hookPc' = "Checked"
    /\ UNCHANGED <<hookOlds, hookNews, hookId, replaces, calls, hookRes, hookResult,
                   remoteHook, gatewayVars, randomVars,
                   compositeVars, slotVars>>

\* diff without lines 55-57.
GithubWebhookProvider_diffOwnerRepo(id, olds, news) ==
    (IF StrictNotEqual(olds.owner, news.owner) THEN <<"owner">> ELSE <<>>)
    \o (IF StrictNotEqual(olds.repo, news.repo) THEN <<"repo">> ELSE <<>>)

\* diff (lines 46-60): the value of replaces.
GithubWebhookProvider_diff(id, olds, news) ==
    (IF StrictNotEqual(olds.owner, news.owner) THEN <<"owner">> ELSE <<>>)
    \o (IF StrictNotEqual(olds.repo, news.repo) THEN <<"repo">> ELSE <<>>)
    \o (IF StrictNotEqual(olds.org, news.org) THEN <<"org">> ELSE <<>>)

\* The framework calls diff for a registration that exists.
HookDiff ==
    /\ hookPc = "Checked"
    /\ hookId # NoId
    /\ replaces' = GithubWebhookProvider_diff(hookId, hookOlds, hookNews)
    /\ hookPc' = "Diffed"
    /\ UNCHANGED <<hookOlds, hookNews, hookId, failedChecks, calls, hookRes,
                   hookResult, remoteHook, gatewayVars, randomVars,
                   compositeVars, slotVars>>

\* create (lines 69-91): the remote call made.
GithubWebhookProvider_createCall(inputs) ==
    IF Truthy(inputs.org)
    THEN [endpoint |-> "orgs.createHook",
          params |-> [org |-> inputs.org, name |-> "web", events |-> inputs.events,
                      config |-> [content_type |-> "json", url |-> inputs.url,
                                  secret |-> inputs.secret]]]
    ELSE [endpoint |-> "repos.createHook",
          params |-> [owner |-> inputs.owner, repo |-> inputs.repo, name |-> "web",
                      events |-> inputs.events,
                      config |-> [content_type |-> "json", url |-> inputs.url,
                                  secret |-> inputs.secret]]]

\* The framework calls create: for a registration that does not exist, or
\* to replace one.  Lines 62-91, up to the await.
HookCreate ==
    /\ \/ hookPc = "Checked" /\ hookId = NoId
       \/ hookPc = "Diffed" /\ replaces # <<>>
    /\ calls' = Append(calls, GithubWebhookProvider_createCall(hookNews))
    /\ hookPc' = "Creating"
    /\ UNCHANGED <<hookOlds, hookNews, hookId, failedChecks, replaces, hookRes,
                   hookResult, remoteHook, gatewayVars, randomVars,
                   compositeVars, slotVars>>

\* create with lines 93-95 left out.
GithubWebhookProvider_createResultUnchecked(res) ==
    [kind |-> "returned", id |-> Str(NumberToString[res.data.id]), error |-> ""]

\* create (lines 93-99): what create returns or raises for the response res.
GithubWebhookProvider_createResult(res) ==
    IF res.status # 201
    THEN [kind |-> "raised", id |-> Undefined, error |-> "bad response"]
    ELSE [kind |-> "returned", id |-> Str(NumberToString[res.data.id]), error |-> ""]

\* No hook.
NoHook ==
    [id |-> 0, family |-> "none", org |-> Undefined, owner |-> Undefined,
     repo |-> Undefined, secret |-> Undefined]

\* The hook the remote service holds once it has answered a creation call
\* (lines 81-84 or 86-90) with res: the one the call describes, when the
\* status is 201 Created.
RemoteCreated(call, res, hook) ==
    IF res.status # 201 THEN hook
    ELSE IF call.endpoint = "orgs.createHook"
    THEN [id |-> res.data.id, family |-> "orgs", org |-> call.params.org,
          owner |-> Undefined, repo |-> Undefined,
          secret |-> call.params.config.secret]
    ELSE [id |-> res.data.id, family |-> "repos", org |-> Undefined,
          owner |-> call.params.owner, repo |-> call.params.repo,
          secret |-> call.params.config.secret]

\* The remote service responds to the creation call: lines 93-99.  The
\* framework records the id and the properties of a registration created.
HookCreateResponse(res) ==
    /\ hookPc = "Creating"
    /\ hookRes' = res
    /\ remoteHook' = RemoteCreated(calls[Len(calls)], res, remoteHook)
    /\ LET result == GithubWebhookProvider_createResult(res)
       IN  /\ hookResult' = result
           /\ IF result.kind = "returned"
              THEN /\ hookPc' = "Done"
                   /\ hookId' = result.id
                   /\ hookOlds' = hookNews
              ELSE /\ hookPc' = "Failed"
                   /\ UNCHANGED <<hookId, hookOlds>>
    /\ UNCHANGED <<hookNews, failedChecks, replaces, calls, gatewayVars, randomVars,
                   compositeVars, slotVars>>

\* The remote call's promise rejects: the await of line 81 or 86 raises.
HookCreateRejected ==
    /\ hookPc = "Creating"
    /\ hookResult' = [kind |-> "raised", id |-> Undefined, error |-> "HttpError"]
    /\ hookPc' = "Failed"
    /\ UNCHANGED <<hookOlds, hookNews, hookId, failedChecks, replaces, calls, hookRes,
                   remoteHook, gatewayVars, randomVars,
                   compositeVars, slotVars>>

\* The responses the remote service can give to a creation call.
Responses == {[status |-> st, data |-> [id |-> h]] : st \in Statuses, h \in HookIds}

(***************************************************************************)
(* A registration's further life: the framework proposes the properties    *)
(* GitHubWebhook's constructor builds, and calls update and delete as      *)
(* well.  One operation of the deployment runs at a time.                  *)
(***************************************************************************)
\* No operation on the registration is under way.  After a diff without
\* replaces the framework calls update when a property has changed.
HookAtRest ==
    \/ hookPc \in {"Idle", "Done", "Failed", "Updated", "UpdateFailed", "Deleted",
                   "DeleteFailed"}
    \/ hookPc = "Diffed" /\ replaces = <<>> /\ hookOlds = hookNews

\* No operation on the secret is under way.
RandAtRest ==
    \/ randPc \in {"Idle", "Done", "Deleted"}
    \/ randPc = "Diffed" /\ randReplaces = <<>>

\* The organizations and the repositories a program declares.
Organizations == {Str(<<>>), Str(<<111, 114, 103>>)}

Repositories == {[owner |-> Str(<<109, 101>>), repo |-> Str(<<105, 116>>)]}

\* The properties of a repository's registration (lines 266-272) and of an
\* organization's (lines 281-286).
RepositoryRegistration(repo, secret, events, url) ==
    [url |-> url, org |-> Undefined, owner |-> repo.owner, repo |-> repo.repo,
     events |-> events, secret |-> secret]

OrganizationRegistration(org, secret, events, url) ==
    [url |-> url, org |-> org, owner |-> Undefined, repo |-> Undefined,
     events |-> events, secret |-> secret]

\* The property sets the constructor can build for one registration when
\* secret.value is secret.
Registrations(secret) ==
    {RepositoryRegistration(repo, secret, events, Str(HookUrl)) :
        repo \in Repositories, events \in EventLists}
    \cup {OrganizationRegistration(org, secret, events, Str(HookUrl)) :
        org \in Organizations, events \in EventLists}

\* The framework proposes a registration's properties once the secret
\* exists: secret.value is the value recorded for the secret.
RegistrationPropose(news) ==
    /\ HookAtRest
    /\ RandAtRest
    /\ randId # NoId
    /\ news \in Registrations(randOlds.value)
    /\ hookNews' = news
    /\ hookPc' = "Proposed"
    /\ failedChecks' = <<>>
    /\ replaces' = <<>>
    /\ calls' = <<>>
    /\ hookRes' = NoRes
    /\ hookResult' = NoResult
    /\ UNCHANGED <<hookOlds, hookId, remoteHook, gatewayVars, randomVars,
                   compositeVars, slotVars>>

\* update with the secret sent as create sends it.
GithubWebhookProvider_updateCallWithSecret(id, olds, news) ==
    [endpoint |-> "repos.editHook",
     params |-> [hook_id |-> id, owner |-> news.owner, repo |-> news.repo,
                 events |-> news.events,
                 config |-> [content_type |-> "json", url |-> news.url,
                             secret |-> news.secret]]]

\* update (lines 112-121): the remote call made.
GithubWebhookProvider_updateCall(id, olds, news) ==
    [endpoint |-> "repos.editHook",
     params |-> [hook_id |-> id, owner |-> news.owner, repo |-> news.repo,
                 events |-> news.events,
                 config |-> [content_type |-> "json", url |-> news.url]]]

\* The framework calls update when diff asked for no replacement and a
\* property has changed.  Lines 102-121, up to the await.
HookUpdate ==
    /\ hookPc = "Diffed"
    /\ replaces = <<>>
    /\ hookOlds # hookNews
    /\ calls' = Append(calls, GithubWebhookProvider_updateCall(hookId, hookOlds, hookNews))
    /\ hookPc' = "Updating"
    /\ UNCHANGED <<hookOlds, hookNews, hookId, failedChecks, replaces, hookRes,
                   hookResult, remoteHook, gatewayVars, randomVars,
                   compositeVars, slotVars>>

\* update (lines 123-127): what update returns for the response res.
GithubWebhookProvider_updateResult(res) ==
    [kind |-> "returned", id |-> Undefined, error |-> "", outs |-> [id |-> res.data.id]]

\* The hook the remote service holds once it has answered an edit call
\* (lines 112-121) with res.  An edit answered 200 that addresses the hook
\* sets the secret the call's config carries; when the config carries
\* none, the service keeps the hook's secret or removes it.
RemoteEdited(call, res, hook, keep) ==
    IF /\ res.status = 200
       /\ hook.family = "repos"
       /\ call.params.owner = hook.owner
       /\ call.params.repo = hook.repo
    THEN [hook EXCEPT !.secret =
              IF "secret" \in DOMAIN call.params.config
              THEN call.params.config.secret
              ELSE IF keep THEN @ ELSE Undefined]
    ELSE hook

\* The remote service responds to the edit call: lines 123-127.  The
\* framework records the properties of a registration updated; its id
\* stays.
HookUpdateResponse(res, keep) ==
    /\ hookPc = "Updating"
    /\ hookRes' = res
    /\ remoteHook' = RemoteEdited(calls[Len(calls)], res, remoteHook, keep)
    /\ LET result == GithubWebhookProvider_updateResult(res)
       IN  /\ hookResult' = result
           /\ IF result.kind = "returned"
              THEN /\ hookPc' = "Updated"
                   /\ hookOlds' = hookNews
              ELSE /\ hookPc' = "UpdateFailed"
                   /\ UNCHANGED hookOlds
    /\ UNCHANGED <<hookNews, hookId, failedChecks, replaces, calls, gatewayVars,
                   randomVars, compositeVars, slotVars>>

\* The remote call's promise rejects: the await of line 112 raises.
HookUpdateRejected ==
    /\ hookPc = "Updating"
    /\ hookResult' = [kind |-> "raised", id |-> Undefined, error |-> "HttpError"]
    /\ hookPc' = "UpdateFailed"
    /\ UNCHANGED <<hookOlds, hookNews, hookId, failedChecks, replaces, calls, hookRes,
                   remoteHook, gatewayVars, randomVars,
                   compositeVars, slotVars>>

\* The statuses of the remote service's responses to an edit call.
UpdateStatuses == {200, 404}

\* Its responses: one with status 200 carries the hook edited.
UpdateResponses(hook) ==
    {[status |-> st, data |-> [id |-> IF st = 200 THEN hook.id ELSE 0]] :
        st \in UpdateStatuses}

\* delete (lines 143-154): the remote call made.
GithubWebhookProvider_deleteCall(id, props) ==
    IF Truthy(props.org)
    THEN [endpoint |-> "orgs.deleteHook", params |-> [hook_id |-> id, org |-> props.org]]
    ELSE [endpoint |-> "repos.deleteHook",
          params |-> [hook_id |-> id, owner |-> props.owner, repo |-> props.repo]]

\* The framework calls delete for a registration that exists, with the id
\* and the properties it recorded.  Lines 130-154, up to the await.
HookDelete ==
    /\ HookAtRest
    /\ RandAtRest
    /\ hookId # NoId
    /\ calls' = <<GithubWebhookProvider_deleteCall(hookId, hookOlds)>>
    /\ hookPc' = "Deleting"
    /\ failedChecks' = <<>>
    /\ replaces' = <<>>
    /\ hookRes' = NoRes
    /\ hookResult' = NoResult
    /\ UNCHANGED <<hookOlds, hookNews, hookId, remoteHook, gatewayVars, randomVars,
                   compositeVars, slotVars>>

\* delete with lines 156-158 left out.
GithubWebhookProvider_deleteResultUnchecked(res) ==
    [kind |-> "returned", id |-> Undefined, error |-> ""]

\* delete (lines 156-158): what delete returns or raises for the response.
GithubWebhookProvider_deleteResult(res) ==
    IF res.status # 204
    THEN [kind |-> "raised", id |-> Undefined, error |-> "bad response"]
    ELSE [kind |-> "returned", id |-> Undefined, error |-> ""]

\* The hook the remote service holds once it has answered a deletion call
\* (lines 144-147 or 149-153) with res: none, when the status is 204.
RemoteDeleted(res, hook) == IF res.status = 204 THEN NoHook ELSE hook

\* The remote service responds to the deletion call: lines 156-158.  The
\* framework forgets a registration deleted, and keeps one whose deletion
\* failed.
HookDeleteResponse(res) ==
    /\ hookPc = "Deleting"
    /\ hookRes' = res
    /\ remoteHook' = RemoteDeleted(res, remoteHook)
    /\ LET result == GithubWebhookProvider_deleteResult(res)
       IN  /\ hookResult' = result
           /\ IF result.kind = "returned"
              THEN /\ hookPc' = "Deleted"
                   /\ hookId' = NoId
                   /\ hookOlds' = NoProps
              ELSE /\ hookPc' = "DeleteFailed"
                   /\ UNCHANGED <<hookId, hookOlds>>
    /\ UNCHANGED <<hookNews, failedChecks, replaces, calls, gatewayVars, randomVars,
                   compositeVars, slotVars>>

\* The remote call's promise rejects: the await of line 144 or 149 raises.
HookDeleteRejected ==
    /\ hookPc = "Deleting"
    /\ hookResult' = [kind |-> "raised", id |-> Undefined, error |-> "HttpError"]
    /\ hookPc' = "DeleteFailed"
    /\ UNCHANGED <<hookOlds, hookNews, hookId, failedChecks, replaces, calls, hookRes,
                   remoteHook, gatewayVars, randomVars,
                   compositeVars, slotVars>>

\* The statuses of the remote service's responses to a deletion call.
DeleteStatuses == {200, 204, 404}

DeleteResponses == {[status |-> st, data |-> [id |-> 0]] : st \in DeleteStatuses}

(***************************************************************************)
(* RandomProvider (random.ts, lines 18-62).                                *)
(***************************************************************************)
\* The value of a string of decimal digits.
DecimalValue[cs \in Seq(Nat)] ==
    IF Len(cs) = 0 THEN 0
    ELSE 10 * DecimalValue[SubSeq(cs, 1, Len(cs) - 1)] + (cs[Len(cs)] - 48)

\* The number a value is converted to where a number is needed: a string
\* of digits is its value, the empty string 0, any other string here NaN.
ToNumber(v) ==
    IF v[1] = "number" THEN v
    ELSE IF IsStr(v) /\ \A i \in 1..Len(v[2]) : IsDigit(v[2][i])
    THEN Num(DecimalValue[v[2]])
    ELSE NaN

isNaN(v) == ToNumber(v) = NaN

\* v <= 0
NotAboveZero(v) == ToNumber(v) # NaN /\ ToNumber(v)[2] <= 0

\* abc   16
ByteCounts ==
    {Undefined, NaN, Num(-1), Num(0), Num(16), Num(SecretByteCount),
     Str(<<97, 98, 99>>), Str(<<49, 54>>)}

\* The property sets the framework can propose for a secret: the ones
\* RandomResource's constructor builds (lines 67-71).
RandomProps == [byteCount : ByteCounts, value : {Undefined}]

RandPropose(news) ==
    /\ \/ randPc \in {"Idle", "Done"}
       \/ randPc = "Diffed" /\ randReplaces = <<>>
    /\ randNews' = news
    /\ randPc' = "Proposed"
    /\ randFailed' = <<>>
    /\ randReplaces' = <<>>
    /\ randResult' = NoResult
    /\ UNCHANGED <<randOlds, randId, randCalls, gatewayVars, hookVars,
                   compositeVars, slotVars>>

\* check (lines 19-31): the value of failedChecks.
RandomProvider_check(olds, news) ==
    (IF news.byteCount = Undefined
     THEN <<[property |-> "byteCount", reason |-> "required property 'byteCount' missing"]>>
     ELSE <<>>)
    \o (IF ~isNaN(news.byteCount) \/ NotAboveZero(news.byteCount)
        THEN <<[property |-> "byteCount",
                reason |-> "'byteCount' should be a positive number"]>>
        ELSE <<>>)

RandCheck ==
    /\ randPc = "Proposed"
    /\ randFailed' = RandomProvider_check(randOlds, randNews)
    /\ randPc' = "Checked"
    /\ UNCHANGED <<randOlds, randNews, randId, randReplaces, randResult,
                   randCalls, gatewayVars, hookVars,
                   compositeVars, slotVars>>

\* diff (lines 33-41): the value of replaces, <<>> when there is none.
RandomProvider_diff(id, olds, news) ==
    IF StrictNotEqual(olds.byteCount, news.byteCount) THEN <<"byteCount">> ELSE <<>>

\* The framework calls diff for a secret that exists.
RandDiff ==
    /\ randPc = "Checked"
    /\ randId # NoId
    /\ randReplaces' = RandomProvider_diff(randId, randOlds, randNews)
    /\ randPc' = "Diffed"
    /\ UNCHANGED <<randOlds, randNews, randId, randFailed, randResult,
                   randCalls, gatewayVars, hookVars,
                   compositeVars, slotVars>>

\* The framework calls create: for a secret that does not exist, or to
\* replace one.  It records the id and the properties with the outputs.
RandCreate(seed) ==
    /\ \/ randPc = "Checked" /\ randId = NoId
       \/ randPc = "Diffed" /\ randReplaces # <<>>
    /\ LET result == RandomProvider_create(randNews, seed)
       IN  /\ randResult' = [kind |-> "returned", id |-> result.id, outs |-> result.outs]
           /\ randId' = result.id
           /\ randOlds' = [byteCount |-> randNews.byteCount, value |-> result.outs.value]
    /\ randPc' = "Done"
    /\ UNCHANGED <<randNews, randFailed, randReplaces, randCalls, gatewayVars,
                   hookVars,
                   compositeVars, slotVars>>

\* delete (lines 59-61): what delete returns, and the remote calls it made.
RandomProvider_delete(id, props) == [kind |-> "returned", calls |-> <<>>]

\* The framework calls delete for a secret that exists, once no registration
\* uses it, and forgets the secret.
RandDelete ==
    /\ RandAtRest
    /\ HookAtRest
    /\ randId # NoId
    /\ hookId = NoId
    /\ LET result == RandomProvider_delete(randId, randOlds)
       IN  /\ randResult' = [kind |-> result.kind, id |-> Undefined, error |-> ""]
           /\ randCalls' = randCalls \o result.calls
    /\ randId' = NoId
    /\ randOlds' = [byteCount |-> Undefined, value |-> Undefined]
    /\ randPc' = "Deleted"
    /\ UNCHANGED <<randNews, randFailed, randReplaces, gatewayVars, hookVars,
                   compositeVars, slotVars>>

\* The byteCount values of a secret in a registration's life: the one the
\* constructor passes (line 206), and another that replaces the secret.
SecretProps == [byteCount : {Num(16), Num(SecretByteCount)}, value : {Undefined}]

(***************************************************************************)
(* GitHubWebhook's constructor (part_000, lines 199-293): the resources it *)
(* registers, in order.  A resource's output that another resource takes   *)
(* as a property is a reference until the deployment creates the resource. *)
(***************************************************************************)
\* The longest list of repositories, and of organizations, declared.
MaxDeclared == 2

\* The lists of at most n different members of S.
RECURSIVE ListsOf(_, _)
ListsOf(S, n) ==
    IF n = 0 THEN {<<>>}
    ELSE LET shorter == ListsOf(S, n - 1)
         IN  shorter \cup {Append(l, x) : l \in {m \in shorter : Len(m) = n - 1},
                                          x \in S}

Distinct(l) == \A i, j \in 1..Len(l) : i # j => l[i] # l[j]

\* acme   ci
DeclaredOrganizations == {Str(<<111, 114, 103>>), Str(<<97, 99, 109, 101>>)}

DeclaredRepositories ==
    {[owner |-> Str(<<109, 101>>), repo |-> Str(<<105, 116>>)],
     [owner |-> Str(<<109, 101>>), repo |-> Str(<<99, 105>>)]}

Array(l) == <<"array", l>>

\* GitHubWebhookArgs (lines 189-194), without the handler.
WebhookArgs ==
    [repositories :
         {Undefined} \cup {Array(l) : l \in {m \in ListsOf(DeclaredRepositories,
                                                            MaxDeclared) : Distinct(m)}},
     organizations :
         {Undefined} \cup {Array(l) : l \in {m \in ListsOf(DeclaredOrganizations,
                                                            MaxDeclared) : Distinct(m)}},
     events : EventLists]

NoWebhookArgs ==
    [repositories |-> Undefined, organizations |-> Undefined, events |-> Undefined]

NoComposite ==
    [constructed |-> FALSE, args |-> NoWebhookArgs, error |-> "", resources |-> <<>>,
     deployed |-> FALSE]

\* gh
CompositeName == <<103, 104>>

\* A resource's output, before the resource exists.
Output(resource, field) == <<"output", resource, field>>

\* v || []
OrEmpty(v) == IF v = Undefined THEN <<>> ELSE v[2]

\* `${name}-secret`
SecretName(name) == name \o <<45, 115, 101, 99, 114, 101, 116>>

\* `${name}-registration-${a}`
RegistrationName(name, a) ==
    name \o <<45, 114, 101, 103, 105, 115, 116, 114, 97, 116, 105, 111, 110, 45>> \o a

\* Lines 206-208, and lines 67-71 of random.ts.
SecretResource(name) ==
    [kind |-> "RandomResource", name |-> SecretName(name),
     props |-> [byteCount |-> Num(SecretByteCount), value |-> Undefined]]

\* Lines 210-261: the gateway is named "hook" whatever name is.
GatewayResource(name) ==
    [kind |-> "API", name |-> <<104, 111, 111, 107>>,
     props |-> [path |-> "/", method |-> "POST"]]

\* The constructor with lines 278-290 left out.
GitHubWebhook_constructorRepositoriesOnly(name, args) ==
    IF args.organizations = Undefined /\ args.repositories = Undefined
    THEN [constructed |-> FALSE, args |-> args,
          error |-> "at least one organization or repository must be specified",
          resources |-> <<>>, deployed |-> FALSE]
    ELSE [constructed |-> TRUE, args |-> args, error |-> "",
          resources |->
              <<SecretResource(name), GatewayResource(name)>>
              \o [i \in 1..Len(OrEmpty(args.repositories)) |->
                     [kind |-> "GitHubWebhookResource",
                      name |-> RegistrationName(name,
                                   OrEmpty(args.repositories)[i].owner[2] \o <<45>>
                                   \o OrEmpty(args.repositories)[i].repo[2]),
                      props |-> RepositoryRegistration(OrEmpty(args.repositories)[i],
                                    Output("secret", "value"), args.events,
                                    Output("api", "url"))]],
          deployed |-> FALSE]

\* The constructor (lines 199-293): the error it raises, or the resources
\* it has registered.
GitHubWebhook_constructor(name, args) ==
    IF args.organizations = Undefined /\ args.repositories = Undefined
    THEN [constructed |-> FALSE, args |-> args,
          error |-> "at least one organization or repository must be specified",
          resources |-> <<>>, deployed |-> FALSE]
    ELSE [constructed |-> TRUE, args |-> args, error |-> "",
          resources |->
              <<SecretResource(name), GatewayResource(name)>>
              \o [i \in 1..Len(OrEmpty(args.repositories)) |->
                     [kind |-> "GitHubWebhookResource",
                      name |-> RegistrationName(name,
                                   OrEmpty(args.repositories)[i].owner[2] \o <<45>>
                                   \o OrEmpty(args.repositories)[i].repo[2]),
                      props |-> RepositoryRegistration(OrEmpty(args.repositories)[i],
                                    Output("secret", "value"), args.events,
                                    Output("api", "url"))]]
              \o [i \in 1..Len(OrEmpty(args.organizations)) |->
                     [kind |-> "GitHubWebhookResource",
                      name |-> RegistrationName(name,
                                   OrEmpty(args.organizations)[i][2]),
                      props |-> OrganizationRegistration(OrEmpty(args.organizations)[i],
                                    Output("secret", "value"), args.events,
                                    Output("api", "url"))]],
          deployed |-> FALSE]

\* The program constructs a GitHubWebhook.
Construct(args) ==
    /\ composite = NoComposite
    /\ composite' = GitHubWebhook_constructor(CompositeName, args)
    /\ UNCHANGED <<gatewayVars, hookVars, randomVars, slotVars>>

\* A property, once the secret has the value given and the gateway its URL.
Resolved(v, value) ==
    IF v = Output("secret", "value") THEN value
    ELSE IF v = Output("api", "url") THEN Str(HookUrl)
    ELSE v

\* The deployment creates the secret and the gateway: secret.value (lines
\* 269 and 284) and api.url (lines 271 and 286) get their values.
Deploy(seed) ==
    /\ composite.constructed
    /\ ~composite.deployed
    /\ composite' =
           [composite EXCEPT
               !.deployed = TRUE,
               !.resources =
                   [i \in 1..Len(composite.resources) |->
                       IF composite.resources[i].kind = "RandomResource"
                       THEN [composite.resources[i] EXCEPT
                                !.props = [byteCount |-> @.byteCount,
                                           value |-> RandomProvider_create(@, seed)
                                                         .outs.value]]
                       ELSE IF composite.resources[i].kind = "GitHubWebhookResource"
                       THEN [composite.resources[i] EXCEPT
                                !.props.secret =
                                    Resolved(@, RandomProvider_create(
                                                    composite.resources[1].props, seed)
                                                    .outs.value),
                                !.props.url = Resolved(@, Undefined)]
                       ELSE composite.resources[i]]]
    /\ UNCHANGED <<gatewayVars, hookVars, randomVars, slotVars>>

(***************************************************************************)
(* The specifications: the gateway handling deliveries, and the framework  *)
(* driving each of the two providers.                                      *)
(***************************************************************************)
GatewayIdle ==
    /\ req = NoDelivery
    /\ pc = "Idle"
    /\ trace = <<>>
    /\ bodyBuf = <<>>
    /\ digest = <<>>
    /\ hmacs = 0
    /\ event = Undefined
    /\ handlerArgs = NoArgs
    /\ invocations = 0
    /\ response = NoResponse
    /\ logCount = 0
    /\ handlerCalls = 0
    /\ deliveries = 0
    /\ complete = 0

HookIdle ==
    /\ hookOlds = NoProps
    /\ hookNews = NoProps
    /\ hookId = NoId
    /\ hookPc = "Idle"
    /\ failedChecks = <<>>
    /\ replaces = <<>>
    /\ calls = <<>>
    /\ hookRes = NoRes
    /\ remoteHook = NoHook
    /\ hookResult = NoResult

RandIdle ==
    /\ randOlds = [byteCount |-> Undefined, value |-> Undefined]
    /\ randNews = [byteCount |-> Undefined, value |-> Undefined]
    /\ randId = NoId
    /\ randPc = "Idle"
    /\ randFailed = <<>>
    /\ randReplaces = <<>>
    /\ randCalls = <<>>
    /\ randResult = NoResult

\* No composite has been constructed.
CompositeIdle == composite = NoComposite

\* The gateway handles no request.
SlotsIdle == slots = <<>>

\* The composite is deployed: secret.value is one of the values create can
\* return.
GatewayInit ==
    /\ secretValue \in Secrets
    /\ GatewayIdle
    /\ HookIdle
    /\ RandIdle
    /\ CompositeIdle
    /\ SlotsIdle

\* Nothing is deployed.
Init ==
    /\ secretValue = <<>>
    /\ GatewayIdle
    /\ HookIdle
    /\ RandIdle
    /\ CompositeIdle
    /\ SlotsIdle

GatewayNext ==
    \/ \E d \in Deliveries : Receive(d)
    \/ CheckHeaders
    \/ VerifySignature
    \/ ParsePayload
    \/ Dispatch
    \/ HandlerReturns
    \/ HandlerRaises

GatewaySpec == GatewayInit /\ [][GatewayNext]_vars

HookNext ==
    \/ \E news \in HookProps : HookPropose(news)
    \/ HookCheck
    \/ HookDiff
    \/ HookCreate
    \/ \E res \in Responses : HookCreateResponse(res)
    \/ HookCreateRejected

HookSpec == Init /\ [][HookNext]_vars

RandNext ==
    \/ \E news \in RandomProps : RandPropose(news)
    \/ RandCheck
    \/ RandDiff
    \/ \E seed \in Seeds : RandCreate(seed)

SecretSpec == Init /\ [][RandNext]_vars

\* A deployment's secret and one of its registrations, from creation to
\* deletion.
LifecycleNext ==
    \/ \E news \in SecretProps : HookAtRest /\ RandPropose(news)
    \/ RandCheck
    \/ RandDiff
    \/ \E seed \in Seeds : RandCreate(seed)
    \/ RandDelete
    \/ \E news \in Registrations(randOlds.value) : RegistrationPropose(news)
    \/ HookCheck
    \/ HookDiff
    \/ HookCreate
    \/ \E res \in Responses : HookCreateResponse(res)
    \/ HookCreateRejected
    \/ HookUpdate
    \/ \E res \in UpdateResponses(remoteHook), keep \in BOOLEAN :
           HookUpdateResponse(res, keep)
    \/ HookUpdateRejected
    \/ HookDelete
    \/ \E res \in DeleteResponses : HookDeleteResponse(res)
    \/ HookDeleteRejected

LifecycleSpec == Init /\ [][LifecycleNext]_vars

\* The gateway handling requests at the same time.
ConcurrentNext ==
    \/ \E d \in ConcurrentDeliveries : SlotReceive(d)
    \/ \E i \in 1..Len(slots) : SlotStart(i)
    \/ \E i \in 1..Len(slots) : SlotVerify(i)
    \/ \E i \in 1..Len(slots), ok \in BOOLEAN : SlotSettle(i, ok)

ConcurrentSpec == GatewayInit /\ [][ConcurrentNext]_vars

\* A program constructs the composite and the deployment creates it.
AssemblyNext ==
    \/ \E args \in WebhookArgs : Construct(args)
    \/ \E seed \in Seeds : Deploy(seed)

AssemblySpec == Init /\ [][AssemblyNext]_vars

(***************************************************************************)
(* The gateway's properties, under GatewaySpec.                            *)
(***************************************************************************)
\* The X-Hub-Signature a holder of the gateway's secret computes over the
\* bytes that were sent.
SenderDigest == Str(Sign(secretValue, req.raw))

\* JSON.parse has been applied to the body of req.
ParseTried == event # Undefined \/ response.error = "SyntaxError"

StepOrder ==
    <<"Received", "HeadersChecked", "SignatureVerified", "PayloadParsed", "Dispatched",
      "Responded">>

\* tr follows StepOrder, up to an exit that ends it; a rejection is after
\* the first or the second step.
InStepOrder(tr) ==
    LET n == IF tr # <<>> /\ tr[Len(tr)] \in {"Rejected", "Raised"}
             THEN Len(tr) - 1 ELSE Len(tr)
    IN  /\ n <= Len(StepOrder)
        /\ \A i \in 1..n : tr[i] = StepOrder[i]
        /\ (tr # <<>> /\ tr[Len(tr)] = "Rejected") => n \in {1, 2}

\* C1: the handler is invoked and the body parsed only once the signature
\* received has been found equal to sha1= and the hex HMAC-SHA1 of the raw
\* body under the secret; for a request whose signature differs, the handler
\* is never invoked and the payload never parsed; the steps of a request
\* happen in the order header check, signature check, parse, dispatch,
\* respond.
C1_VerifiedBeforeUse ==
    /\ (ParseTried \/ invocations > 0 \/ handlerArgs # NoArgs)
           => /\ req.sig = SenderDigest
              /\ req.sig = Str(digest)
              /\ SubSeq(trace, 1, 3) = SubSeq(StepOrder, 1, 3)
    /\ req.sig # SenderDigest
           => /\ ~ParseTried
              /\ invocations = 0
              /\ handlerArgs = NoArgs
              /\ pc \notin {"SignatureVerified", "PayloadParsed", "Dispatched", "Responded"}
    /\ InStepOrder(trace)

\* A base64 delivery with the right signature has been verified, parsed,
\* dispatched and answered.
C1_Witness ==
    /\ pc = "Responded"
    /\ req.isBase64Encoded
    /\ req.sig = SenderDigest
    /\ trace = StepOrder

\* C2: a request with the four inputs whose signature is not the computed
\* digest, of whatever length, is answered by a returned response with
\* statusCode 400, and never by a raised error.
C2_AuthFailureReturns400 ==
    (FourInputs(req) /\ req.sig # SenderDigest)
        => /\ pc # "Raised"
           /\ response.kind # "raised"
           /\ pc \in Resting => (response.kind = "returned" /\ response.statusCode = 400)

\* C3: a request that lacks the event type, the delivery id, the signature
\* or the body is answered with statusCode 400, no HMAC is computed for it
\* and the handler is not invoked: the handler has been called at most as
\* often as requests with the four inputs have arrived.
C3_MissingInputRejected ==
    /\ (pc # "Idle" /\ ~FourInputs(req))
           => /\ pc \in {"Received", "Rejected"}
              /\ hmacs = 0
              /\ digest = <<>>
              /\ invocations = 0
              /\ pc = "Rejected" => (response.kind = "returned" /\ response.statusCode = 400)
    /\ handlerCalls <= complete

\* Two requests, each lacking an input, have been rejected, the last one
\* for its missing body, and the handler has not been called.
C3_Witness ==
    /\ deliveries >= 2
    /\ complete = 0
    /\ pc = "Rejected"
    /\ req.type # Undefined /\ req.id # Undefined /\ req.sig \in {Str(x) : x \in Signed}
    /\ req.body = Undefined
    /\ handlerCalls = 0

\* The request has the four inputs, the right signature and a body that is
\* valid JSON.
Deliverable == FourInputs(req) /\ req.sig = SenderDigest /\ JSONParse[req.text].ok

\* C4: for a request with the four inputs, the right signature and a valid
\* JSON body, the handler is invoked exactly once, with the request, the
\* event type, the delivery id and the parsed body; {statusCode: 200, body:
\* ""} is returned only after that invocation has completed, and if and
\* only if the handler was invoked and did not raise: if it raises, the
\* error propagates and no 200 is returned.
C4_DispatchThenRespond ==
    /\ invocations <= 1
    /\ Deliverable
           => /\ pc # "Rejected"
              /\ pc = "Raised" => response = Raised("handler error")
              /\ pc \in {"Dispatched", "Responded", "Raised"}
                     => /\ invocations = 1
                        /\ handlerArgs = [called |-> TRUE, request |-> Request(req),
                                          type |-> req.type, id |-> req.id,
                                          data |-> JSONParse[req.text].val]
    /\ (response.kind = "returned" /\ response.statusCode = 200)
           <=> (pc = "Responded" /\ invocations = 1 /\ trace = StepOrder)
    /\ pc = "Responded" => response = Returned(200, "")
    /\ response.error = "handler error"
           => (response.kind = "raised" /\ trace = SubSeq(StepOrder, 1, 5) \o <<"Raised">>)

\* The handler has been invoked for a delivery sent as it is, and has
\* returned; 200 has been returned.
C4_Witness ==
    /\ Deliverable
    /\ ~req.isBase64Encoded
    /\ pc = "Responded"
    /\ handlerArgs # NoArgs
    /\ response = Returned(200, "")

(***************************************************************************)
(* The webhook registration's properties, under HookSpec.                  *)
(***************************************************************************)
\* check has returned for hookNews.
HookChecked == hookPc \notin {"Idle", "Proposed"}

FailedProperties == {failedChecks[i].property : i \in 1..Len(failedChecks)}

\* C5: check reports every violated constraint in one pass: a failure
\* naming url iff url is absent, one naming org iff org is set together
\* with owner or repo, one naming repo iff owner is set without repo, one
\* naming owner iff repo is set without owner, and no other failure.
C5_CheckReportsAll ==
    HookChecked
        => /\ "url" \in FailedProperties <=> hookNews.url = Undefined
           /\ "org" \in FailedProperties
                  <=> (hookNews.org # Undefined
                       /\ (hookNews.owner # Undefined \/ hookNews.repo # Undefined))
           /\ "repo" \in FailedProperties
                  <=> (hookNews.owner # Undefined /\ hookNews.repo = Undefined)
           /\ "owner" \in FailedProperties
                  <=> (hookNews.repo # Undefined /\ hookNews.owner = Undefined)
           /\ FailedProperties \subseteq {"url", "org", "repo", "owner"}
           /\ Len(failedChecks) = Cardinality(FailedProperties)

\* check has returned three failures at once: url is absent, and org is set
\* together with an owner that has no repo.
C5_Witness ==
    /\ hookPc = "Checked"
    /\ hookNews.url = Undefined
    /\ hookNews.org # Undefined /\ hookNews.owner # Undefined /\ hookNews.repo = Undefined
    /\ FailedProperties = {"url", "org", "repo"}

\* C6: a proposed registration that check accepts with no failure has
\* exactly one of org and the complete (owner, repo) pair set: never both,
\* never neither.
C6_AcceptedHasOneScope ==
    (HookChecked /\ failedChecks = <<>>)
        => /\ (hookNews.org # Undefined)
                  # (hookNews.owner # Undefined /\ hookNews.repo # Undefined)
           /\ hookNews.org # Undefined
                  => (hookNews.owner = Undefined /\ hookNews.repo = Undefined)

\* C7: diff returns as replaces exactly the properties among owner, repo
\* and org whose value differs between olds and news; a pair that differs
\* in events or url only gets an empty replaces.
C7_DiffReplacesScope ==
    hookPc = "Diffed"
        => /\ {replaces[i] : i \in 1..Len(replaces)}
                  = {q \in {"owner", "repo", "org"} : hookOlds[q] # hookNews[q]}
           /\ Len(replaces) = Cardinality({replaces[i] : i \in 1..Len(replaces)})
           /\ (/\ hookOlds.owner = hookNews.owner
               /\ hookOlds.repo = hookNews.repo
               /\ hookOlds.org = hookNews.org) => replaces = <<>>

\* diff has returned no replaces for a pair that differs in url and events,
\* and only in them.
C7_Witness ==
    /\ hookPc = "Diffed"
    /\ hookOlds.url # hookNews.url
    /\ hookOlds.events # hookNews.events
    /\ hookOlds.org = hookNews.org /\ hookOlds.org # Undefined
    /\ replaces = <<>>

\* The property names an organization, an owner or a repository.
Named(v) == v \notin {Undefined, Str(<<>>)}

\* The text of the ids the remote service assigns.
HookIdText(h) == IF h = 7 THEN Str(<<55>>) ELSE Str(<<49, 50>>)

\* C10: create makes exactly one remote hook-creation call, with the
\* proposed events, url and secret: to the organization-level endpoint when
\* org names an organization, to the repository-level endpoint with owner
\* and repo otherwise; when the response's status is not the success
\* status, create raises and returns no id; on success the id returned is
\* the hook id of that response.
C10_CreateCallsOnce ==
    /\ hookPc \in {"Creating", "Done", "Failed"}
           => /\ Len(calls) = 1
              /\ calls[1].params.name = "web"
              /\ calls[1].params.events = hookNews.events
              /\ calls[1].params.config
                     = [content_type |-> "json", url |-> hookNews.url,
                        secret |-> hookNews.secret]
              /\ IF Named(hookNews.org)
                 THEN /\ calls[1].endpoint = "orgs.createHook"
                      /\ DOMAIN calls[1].params = {"org", "name", "events", "config"}
                      /\ calls[1].params.org = hookNews.org
                 ELSE /\ calls[1].endpoint = "repos.createHook"
                      /\ DOMAIN calls[1].params
                             = {"owner", "repo", "name", "events", "config"}
                      /\ calls[1].params.owner = hookNews.owner
                      /\ calls[1].params.repo = hookNews.repo
    /\ hookPc \notin {"Creating", "Done", "Failed"} => calls = <<>>
    /\ (hookPc \in {"Done", "Failed"} /\ hookRes.status # 201)
           => /\ hookPc = "Failed"
              /\ hookResult.kind = "raised"
              /\ hookResult.id = Undefined
    /\ hookPc = "Failed" => (hookResult.kind = "raised" /\ hookResult.id = Undefined)
    /\ hookPc = "Done"
           => /\ hookRes.status = 201
              /\ hookResult.kind = "returned"
              /\ hookResult.id = HookIdText(hookRes.data.id)
              /\ hookId = hookResult.id

\* create has called the organization-level endpoint once and returned the
\* id 12 of the response.
C10_Witness ==
    /\ hookPc = "Done"
    /\ Named(hookNews.org)
    /\ Len(calls) = 1 /\ calls[1].endpoint = "orgs.createHook"
    /\ hookRes = [status |-> 201, data |-> [id |-> 12]]
    /\ hookResult.id = Str(<<49, 50>>)

(***************************************************************************)
(* The secret's properties, under SecretSpec.                              *)
(***************************************************************************)
PositiveNumber(v) == v[1] = "number" /\ v[2] > 0

\* C8: check returns a failure if and only if byteCount is missing or is
\* not a positive number: a positive number is accepted with no failure.
C8_CheckAcceptsPositive ==
    randPc \notin {"Idle", "Proposed"}
        => (randFailed # <<>> <=> ~PositiveNumber(randNews.byteCount))

\* C9: for a positive byteCount N, create returns a value that decodes to
\* exactly N bytes, and returns it as the id and as the output value.
C9_CreateDrawsByteCount ==
    (randPc = "Done" /\ PositiveNumber(randNews.byteCount))
        => /\ Len(Base64Decode[randResult.outs.value[2]]) = randNews.byteCount[2]
           /\ randResult.id = randResult.outs.value

(***************************************************************************)
(* The gateway and a payload that is not JSON, under GatewaySpec.          *)
(***************************************************************************)
\* The request has the four inputs and the right signature, and its body
\* is not valid JSON.
SignedNotJson == FourInputs(req) /\ req.sig = SenderDigest /\ ~JSONParse[req.text].ok

\* C14: for a request with the four inputs whose signature is the computed
\* digest and whose body is not valid JSON, the gateway raises the parse
\* error: it returns neither 200 nor 400 and never invokes the handler.
C14_ParseErrorRaised ==
    SignedNotJson
        => /\ response.kind # "returned"
           /\ invocations = 0
           /\ handlerArgs = NoArgs
           /\ pc \in {"Received", "HeadersChecked", "SignatureVerified", "Raised"}
           /\ pc = "Raised" => response = Raised("SyntaxError")

\* A signed delivery of the text {"a": has been verified and its parse has
\* raised.
C14_Witness ==
    /\ SignedNotJson
    /\ req.text = <<123, 34, 97, 34, 58>>
    /\ pc = "Raised"
    /\ response = Raised("SyntaxError")
    /\ trace = <<"Received", "HeadersChecked", "SignatureVerified", "Raised">>

(***************************************************************************)
(* The gateway handling requests at the same time, under ConcurrentSpec.   *)
(***************************************************************************)
\* The invocation for the delivery d handled alone, as far as the handler's
\* call, when secret.value is value.
AloneToHandler(d, value) ==
    IF HandlerStart(NewSlot(d)).pc = "Done"
    THEN HandlerStart(NewSlot(d))
    ELSE HandlerVerify(HandlerStart(NewSlot(d)), value)

\* The same to its end, the handler's promise resolving (ok) or rejecting.
Alone(d, value, ok) ==
    IF AloneToHandler(d, value).pc = "Done"
    THEN AloneToHandler(d, value)
    ELSE HandlerSettle(AloneToHandler(d, value), ok)

\* C17: under any interleaving of the steps of requests handled at the
\* same time, each request's outcome and the arguments its handler gets
\* are those of the request handled alone, and the invocations write
\* nothing they share: the secret's value and the gateway's state stay.
C17_HandledAsAlone ==
    /\ \A i \in 1..Len(slots) :
           /\ slots[i].pc = "AwaitingHandler"
                  => slots[i].handlerArgs
                         = AloneToHandler(slots[i].req, secretValue).handlerArgs
           /\ slots[i].pc = "Done"
                  => \E ok \in BOOLEAN :
                         /\ slots[i].response
                                = Alone(slots[i].req, secretValue, ok).response
                         /\ slots[i].handlerArgs
                                = Alone(slots[i].req, secretValue, ok).handlerArgs
    /\ secretValue \in Secrets
    /\ GatewayIdle

\* Two requests with different bodies handled at the same time have ended
\* differently: one accepted, the other rejected for its signature.
C17_Witness ==
    /\ Len(slots) = 2
    /\ slots[1].pc = "Done" /\ slots[1].response = Returned(200, "")
    /\ slots[1].handlerArgs.called
    /\ slots[2].pc = "Done" /\ slots[2].response = Returned(400, "bad signature")
    /\ slots[1].req.raw # slots[2].req.raw

(***************************************************************************)
(* The properties of a registration's life, under LifecycleSpec.           *)
(***************************************************************************)
\* C11: delete makes exactly one remote hook-deletion call, with the
\* recorded id as hook id: to the organization-level endpoint with the
\* recorded org when the recorded properties name one, to the
\* repository-level endpoint with the recorded owner and repo otherwise;
\* a response whose status is not 204 makes delete raise, and the id stays
\* recorded.  Deleting the secret makes no remote call.
C11_DeleteCallsOnce ==
    /\ hookPc \in {"Deleting", "Deleted", "DeleteFailed"}
           => /\ Len(calls) = 1
              /\ calls[1].endpoint \in {"orgs.deleteHook", "repos.deleteHook"}
    /\ hookPc \in {"Deleting", "DeleteFailed"}
           => /\ hookId # NoId
              /\ calls[1].params.hook_id = hookId
              /\ IF Named(hookOlds.org)
                 THEN /\ calls[1].endpoint = "orgs.deleteHook"
                      /\ calls[1].params = [hook_id |-> hookId, org |-> hookOlds.org]
                 ELSE /\ calls[1].endpoint = "repos.deleteHook"
                      /\ calls[1].params
                             = [hook_id |-> hookId, owner |-> hookOlds.owner,
                                repo |-> hookOlds.repo]
    /\ (hookPc \in {"Deleted", "DeleteFailed"} /\ hookRes.status # 204)
           => /\ hookPc = "DeleteFailed"
              /\ hookResult.kind = "raised"
    /\ hookPc = "Deleted"
           => /\ hookRes.status = 204
              /\ hookResult.kind = "returned"
              /\ hookId = NoId
    /\ randCalls = <<>>

\* The registration of an organization has been deleted with one call to
\* the organization-level endpoint, and the secret after it.
C11_Witness ==
    /\ hookPc = "Deleted"
    /\ Len(calls) = 1 /\ calls[1].endpoint = "orgs.deleteHook"
    /\ calls[1].params.org = Str(<<111, 114, 103>>)
    /\ hookRes.status = 204
    /\ randPc = "Deleted"
    /\ randResult.kind = "returned"

\* C13: whenever the remote service answers the edit call with a status
\* other than success, update raises and returns no outputs.
C13_UpdateRaisesOnFailure ==
    (hookPc \in {"Updated", "UpdateFailed"} /\ hookRes # NoRes /\ hookRes.status # 200)
        => /\ hookPc = "UpdateFailed"
           /\ hookResult.kind = "raised"

\* C15: update makes exactly one remote call, an edit addressed to the
\* recorded id, carrying the proposed owner, repo, events and url and no
\* secret; it makes no creation and no deletion call, and the recorded id
\* stays what it was.
C15_UpdateEditsOnce ==
    hookPc \in {"Updating", "Updated", "UpdateFailed"}
        => /\ Len(calls) = 1
           /\ calls[1].endpoint = "repos.editHook"
           /\ hookId # NoId
           /\ calls[1].params.hook_id = hookId
           /\ DOMAIN calls[1].params = {"hook_id", "owner", "repo", "events", "config"}
           /\ calls[1].params.owner = hookNews.owner
           /\ calls[1].params.repo = hookNews.repo
           /\ calls[1].params.events = hookNews.events
           /\ calls[1].params.config = [content_type |-> "json", url |-> hookNews.url]

\* update has edited a repository's hook for a new events list, and the
\* service has answered 200.
C15_Witness ==
    /\ hookPc = "Updated"
    /\ hookRes.status = 200
    /\ Len(calls) = 1 /\ calls[1].endpoint = "repos.editHook"
    /\ calls[1].params.owner = Str(<<109, 101>>)
    /\ hookOlds = hookNews
    /\ hookId = HookIdText(remoteHook.id)

\* C16: an id is recorded for the registration exactly when a creation has
\* succeeded and no deletion has succeeded since, and it is the id that
\* creation returned: updates leave it, a failed creation records none
\* and a failed deletion keeps it.
C16_IdTracksHook ==
    /\ hookId # NoId <=> remoteHook # NoHook
    /\ hookId # NoId => hookId = HookIdText(remoteHook.id)
    /\ hookPc = "Done" => hookId # NoId
    /\ hookPc = "Deleted" => hookId = NoId
    /\ (hookPc = "Failed" /\ hookOlds = NoProps) => hookId = NoId
    /\ hookPc = "DeleteFailed" => hookId # NoId

\* After a creation, an update and a failed deletion the id is recorded
\* still.
C16_Witness ==
    /\ hookPc = "DeleteFailed"
    /\ hookRes.status = 404
    /\ hookId = Str(<<49, 50>>)
    /\ remoteHook.id = 12

\* The registration is up to date: its last operation succeeded with the
\* secret's current value among the proposed properties.
UpToDate ==
    /\ randId # NoId
    /\ RandAtRest
    /\ \/ hookPc \in {"Done", "Updated"}
       \/ hookPc = "Diffed" /\ replaces = <<>> /\ hookOlds = hookNews
    /\ hookOlds.secret = randOlds.value

\* C18: once the registration is up to date, the secret of its hook at
\* the remote service is the secret's value, which the gateway verifies
\* deliveries with.
C18_RemoteSecretIsGatewaySecret ==
    (UpToDate /\ remoteHook # NoHook) => remoteHook.secret = randOlds.value

\* The family of a remote call's endpoint.
Family(endpoint) ==
    IF endpoint \in {"orgs.createHook", "orgs.editHook", "orgs.deleteHook"}
    THEN "orgs" ELSE "repos"

\* The call addresses the scope the hook was created in.
SameScope(call, hook) ==
    /\ Family(call.endpoint) = hook.family
    /\ hook.family = "orgs" => call.params.org = hook.org
    /\ hook.family = "repos"
           => (call.params.owner = hook.owner /\ call.params.repo = hook.repo)

\* C19: every remote call update and delete make for a registration
\* addresses the scope family, and the scope, its hook was created in.
C19_CallsKeepScope ==
    (hookPc \in {"Updating", "Updated", "UpdateFailed", "Deleting", "DeleteFailed"}
     /\ remoteHook # NoHook)
        => \A i \in 1..Len(calls) : SameScope(calls[i], remoteHook)

(***************************************************************************)
(* The composite's properties, under AssemblySpec.                         *)
(***************************************************************************)
\* The resources of a kind the composite holds.
OfKind(kind) ==
    {i \in 1..Len(composite.resources) : composite.resources[i].kind = kind}

\* The registrations among them.
RegistrationsBuilt == {composite.resources[i].props : i \in OfKind("GitHubWebhookResource")}

\* The value of the composite's secret: a reference before the deployment.
SecretBuilt ==
    IF composite.deployed
    THEN composite.resources[CHOOSE i \in OfKind("RandomResource") : TRUE].props.value
    ELSE Output("secret", "value")

UrlBuilt == IF composite.deployed THEN Str(HookUrl) ELSE Output("api", "url")

\* C12: a composite constructed for declared repositories and
\* organizations holds exactly one secret, one gateway, and exactly one
\* registration for each repository and each organization declared; every
\* registration carries the events declared, the secret's value and the
\* gateway's URL, and the scope of its declaration and no other.
C12_OneRegistrationEach ==
    composite.constructed
        => /\ Cardinality(OfKind("RandomResource")) = 1
           /\ Cardinality(OfKind("API")) = 1
           /\ Cardinality(OfKind("GitHubWebhookResource"))
                  = Len(OrEmpty(composite.args.repositories))
                    + Len(OrEmpty(composite.args.organizations))
           /\ Len(composite.resources)
                  = 2 + Cardinality(OfKind("GitHubWebhookResource"))
           /\ \A k \in 1..Len(OrEmpty(composite.args.repositories)) :
                  Cardinality({i \in OfKind("GitHubWebhookResource") :
                      /\ composite.resources[i].props.owner
                             = OrEmpty(composite.args.repositories)[k].owner
                      /\ composite.resources[i].props.repo
                             = OrEmpty(composite.args.repositories)[k].repo
                      /\ composite.resources[i].props.org = Undefined}) = 1
           /\ \A k \in 1..Len(OrEmpty(composite.args.organizations)) :
                  Cardinality({i \in OfKind("GitHubWebhookResource") :
                      /\ composite.resources[i].props.org
                             = OrEmpty(composite.args.organizations)[k]
                      /\ composite.resources[i].props.owner = Undefined
                      /\ composite.resources[i].props.repo = Undefined}) = 1
           /\ \A props \in RegistrationsBuilt :
                  /\ props.events = composite.args.events
                  /\ props.secret = SecretBuilt
                  /\ props.url = UrlBuilt

\* A composite for two repositories and one organization has been deployed:
\* it holds three registrations with the secret's value.
C12_Witness ==
    /\ composite.constructed
    /\ composite.deployed
    /\ Len(OrEmpty(composite.args.repositories)) = 2
    /\ Len(OrEmpty(composite.args.organizations)) = 1
    /\ Cardinality(OfKind("GitHubWebhookResource")) = 3
    /\ \A props \in RegistrationsBuilt : props.secret[2] \in Secrets

\* The program has declared no repository and no organization.
NoneDeclared ==
    /\ OrEmpty(composite.args.repositories) = <<>>
    /\ OrEmpty(composite.args.organizations) = <<>>

\* C20: every composite constructed holds at least one registration; a
\* construction given no organization and no repository raises "at least
\* one organization or repository must be specified" and registers no
\* secret, no gateway and no registration.
C20_ConstructedHasRegistration ==
    /\ composite.constructed => Cardinality(OfKind("GitHubWebhookResource")) >= 1
    /\ (composite # NoComposite /\ NoneDeclared)
           => /\ ~composite.constructed
              /\ composite.error
                     = "at least one organization or repository must be specified"
              /\ composite.resources = <<>>

=============================================================================
